---- MODULE Spec2Model ----
(***************************************************************************)
(* A model of gist/client.py: the command line client of gist.             *)
(*                                                                         *)
(* main() is modelled statement group by statement group.  The variable pc *)
(* is the position in main(); the other variables are main()'s locals and  *)
(* the record of what the run did to the outside (remote calls, files      *)
(* opened, editor started, stdin read, lines printed).                     *)
(*                                                                         *)
(* Strings are TLA+ strings; Python's None is the value None below.        *)
(***************************************************************************)
EXTENDS Integers, Sequences, FiniteSets, TLC

VARIABLES
    argv,         \* the command line: [cmd, flags, pos]
    world,        \* what the process finds: environment, file system, config
    pc,           \* position in main()
    args,         \* docopt's dictionary
    config_path,  \* main: config_path
    config,       \* main: config (the parsed configuration)
    log_level,    \* level set on the 'gist' logger
    editor,       \* main: editor
    gapi,         \* main: gapi (the token and editor GistAPI was built with)
    content,      \* content command: the gist's files, in remote order
    gist_file,    \* content command: gist_file
    todo,         \* delete / create from files: what the for loop has left
    mode,         \* create: where the data came from
    files,        \* create: files (a list of FileInfo)
    tmpfile,      \* create from editor: state of the temporary file
    data,         \* create: data (the payload), an ordered dictionary
    remote,       \* the calls made on the remote API, in order
    opened,       \* the content files opened, in order
    editor_runs,  \* the editor command lines run through os.system
    stdin_read,   \* whether sys.stdin.read() was called
    out,          \* what was printed on stdout, one entry per print()
    err,          \* the exception that ended main(), or None
    txt,          \* elide: the text
    width,        \* elide: the width, <<>> for None and <<w>> for w
    once,         \* elide applied once
    twice         \* elide applied twice

vars == <<argv, world, pc, args, config_path, config, log_level, editor, gapi,
          content, gist_file, todo, mode, files, tmpfile, data, remote, opened,
          editor_runs, stdin_read, out, err, txt, width, once, twice>>

\* the locals and effects of the command bodies
body == <<content, gist_file, todo, mode, files, tmpfile, data, remote, opened,
          editor_runs, stdin_read, out>>

\* the variables of the elide development
evars == <<txt, width, once, twice>>

\* the variables main() does not change after gapi is made
fixed == <<argv, world, args, config_path, config, log_level, editor, gapi,
           evars>>

-----------------------------------------------------------------------------
(* Bounds of the model *)

\* most positional arguments after the description of create
MaxArgs == 2
\* most ids given to delete
MaxIds == 2
\* longest text given to elide
MaxLen == 6
\* widest terminal given to elide
MaxWidth == 5

-----------------------------------------------------------------------------
(* Python values *)

None == "<None>"

\* dict.get(key, default)
DictGet(d, key, default) == IF key \in DOMAIN d THEN d[key] ELSE default

\* str.strip(), for blanks
RECURSIVE LStrip(_)
LStrip(s) == IF s # "" /\ Head(s) = " " THEN LStrip(Tail(s)) ELSE s

RECURSIVE RStrip(_)
RStrip(s) ==
    IF s # "" /\ SubSeq(s, Len(s), Len(s)) = " "
    THEN RStrip(SubSeq(s, 1, Len(s) - 1))
    ELSE s

Strip(s) == RStrip(LStrip(s))

\* os.environ.get(name, '')
EnvGet(env, name) == IF env[name] = None THEN "" ELSE env[name]

\* os.path.expanduser of a path below '~'
Home == "/home/user"
ExpandUser(rest) == Home \o "/" \o rest

\* os.path.join(dir, name)
PathJoin(dir, name) ==
    IF dir # "" /\ SubSeq(dir, Len(dir), Len(dir)) = "/"
    THEN dir \o name
    ELSE dir \o "/" \o name

\* os.path.basename(path): what follows the last '/'
RECURSIVE BaseName(_)
BaseName(path) ==
    IF \E i \in 1..Len(path) : SubSeq(path, i, i) = "/"
    THEN BaseName(Tail(path))
    ELSE path

Error(type, msg) == [type |-> type, msg |-> msg]

-----------------------------------------------------------------------------
(* The configuration (configparser) *)

Options == {"token", "editor", "log-level", "gnupg-homedir",
            "gnupg-fingerprint", "delete-tempfiles"}

\* config.has_option('gist', option)
HasOption(cfg, option) == cfg.section /\ cfg.opts[option] # None

\* no exception
NoError == Error(None, None)

\* config.get('gist', option): the exception it raises, NoError if none
ConfigGetError(cfg, option) ==
    IF ~cfg.section THEN Error("NoSectionError", "No section: 'gist'")
    ELSE IF cfg.opts[option] = None
         THEN Error("NoOptionError", "No option '" \o option \o "'")
         ELSE NoError

\* config.get('gist', option): the value, when it raises nothing
ConfigGet(cfg, option) == cfg.opts[option]

\* the configuration before it is read
NoConfig == [section |-> FALSE, opts |-> [o \in Options |-> None]]

-----------------------------------------------------------------------------
(* The command line (docopt over the usage section of the module docstring) *)

Commands == {"list", "edit", "description", "info", "fork", "files", "delete",
             "archive", "content", "create", "clone", "version"}

Flags == {"--public", "--encrypt", "--filename", "--decrypt"}

\* the dictionary docopt returns holds every element of the usage patterns
Keys == Commands \cup Flags
        \cup {"<id>", "<ids>", "<desc>", "<filename>", "<name>", "FILES"}

\* args before docopt has run
NoArgs == [k \in {"<none>"} |-> None]

\* the elements every match leaves at their defaults
Defaults(cmd) ==
    [k \in Keys |->
        IF k \in Commands THEN k = cmd
        ELSE IF k \in Flags THEN FALSE
        ELSE IF k \in {"<ids>", "FILES"} THEN <<>>
        ELSE None]

Set(d, k, v) == [d EXCEPT ![k] = v]

\* CreateFiles with --filename allowed in the pattern
CreateFilesAnyOption(a) ==
    IF a.pos = <<>> THEN [k \in {"<none>"} |-> None]
    ELSE [[[[[k \in Keys |->
                IF k \in Commands THEN k = "create"
                ELSE IF k \in Flags THEN k \in a.flags
                ELSE IF k \in {"<ids>", "FILES"} THEN <<>>
                ELSE None]
            EXCEPT !["<desc>"] = a.pos[1]]
            EXCEPT !["--public"] = "--public" \in a.flags]
            EXCEPT !["--encrypt"] = "--encrypt" \in a.flags]
            EXCEPT !["FILES"] = Tail(a.pos)]

\* gist create <desc> [--public] [--encrypt] [FILES ...]
\* matches unless --filename is left over
CreateFiles(a) ==
    IF "--filename" \in a.flags \/ a.pos = <<>> THEN NoArgs
    ELSE Set(Set(Set(Set(Defaults("create"),
            "<desc>", a.pos[1]),
            "--public", "--public" \in a.flags),
            "--encrypt", "--encrypt" \in a.flags),
            "FILES", Tail(a.pos))

\* gist create <desc> [--public] [--encrypt] [--filename <filename>]
\* matches unless a second positional argument is left over: the brackets make
\* --filename and <filename> optional each on its own
CreateFilename(a) ==
    IF a.pos = <<>> \/ Len(a.pos) > 2 THEN NoArgs
    ELSE Set(Set(Set(Set(Set(Defaults("create"),
            "<desc>", a.pos[1]),
            "--public", "--public" \in a.flags),
            "--encrypt", "--encrypt" \in a.flags),
            "--filename", "--filename" \in a.flags),
            "<filename>", IF Len(a.pos) = 2 THEN a.pos[2] ELSE None)

\* docopt.docopt(__doc__, argv): the first usage pattern that consumes all
\* of argv; NoArgs when none does (docopt then exits with the usage)
Docopt(a) ==
    CASE a.cmd = "create" ->
            IF CreateFiles(a) # NoArgs THEN CreateFiles(a) ELSE CreateFilename(a)
      [] a.cmd = "content" ->
            Set(Set(Set(Defaults("content"),
                "<id>", a.pos[1]),
                "<filename>", IF Len(a.pos) = 2 THEN a.pos[2] ELSE None),
                "--decrypt", "--decrypt" \in a.flags)
      [] a.cmd = "delete" -> Set(Defaults("delete"), "<ids>", a.pos)
      [] a.cmd = "description" ->
            Set(Set(Defaults("description"), "<id>", a.pos[1]), "<desc>", a.pos[2])
      [] a.cmd = "clone" ->
            Set(Set(Defaults("clone"), "<id>", a.pos[1]),
                "<name>", IF Len(a.pos) = 2 THEN a.pos[2] ELSE None)
      [] a.cmd \in {"list", "version"} -> Defaults(a.cmd)
      [] OTHER -> Set(Defaults(a.cmd), "<id>", a.pos[1])

-----------------------------------------------------------------------------
(* Looking for the configuration file and for the editor *)

\* alternative_config(default)
AlternativeConfig(w, default) ==
    LET path == ExpandUser(".config/gist")
    IN  IF path \in w.isfile THEN path ELSE default

\* xdg_data_config(default)
XdgDataConfig(w, default) ==
    LET xdg == Strip(EnvGet(w.env, "XDG_DATA_HOME"))
    IN  IF xdg # "" /\ PathJoin(xdg, "gist") \in w.isfile
        THEN PathJoin(xdg, "gist")
        ELSE default

\* ConfigPath with ~/.config/gist looked for last, so that it wins
ConfigPathAlternativeLast(w) ==
    AlternativeConfig(w, XdgDataConfig(w, ExpandUser(".gist")))

\* main: the three assignments to config_path
ConfigPath(w) ==
    XdgDataConfig(w, AlternativeConfig(w, ExpandUser(".gist")))

\* alternative_editor(default)
AlternativeEditor(w, default) ==
    IF w.alt_editor THEN "/usr/bin/editor" ELSE default

\* environment_editor(default)
EnvironmentEditor(w, default) ==
    LET e == Strip(EnvGet(w.env, "EDITOR"))
    IN  IF e # "" THEN e ELSE default

\* configuration_editor(config, default), in a config that has the section
ConfigurationEditor(cfg, default) ==
    IF ConfigGetError(cfg, "editor") = NoError
    THEN ConfigGet(cfg, "editor")
    ELSE default

\* FindEditor with the environment looked at last
FindEditorEnvLast(w, cfg) ==
    EnvironmentEditor(w, ConfigurationEditor(cfg, AlternativeEditor(w, None)))

\* main: the four assignments to editor
FindEditor(w, cfg) ==
    ConfigurationEditor(cfg, EnvironmentEditor(w, AlternativeEditor(w, None)))

\* str.upper() on the log levels of the model
Upper(s) ==
    CASE s = "debug" -> "DEBUG"
      [] s = "bogus" -> "BOGUS"
      [] OTHER -> s

\* the level names logging.setLevel accepts
LevelNames == {"CRITICAL", "FATAL", "ERROR", "WARN", "WARNING", "INFO",
               "DEBUG", "NOTSET"}

NoApi == [token |-> None, editor |-> None]

-----------------------------------------------------------------------------
(* main(), up to the creation of the API object *)

Raise(e) ==
    /\ err' = e
    /\ pc' = "done"

\* lines 304-308: args = docopt.docopt(...)
ParseArgs ==
    /\ pc = "start"
    /\ args' = Docopt(argv)
    /\ IF Docopt(argv) = NoArgs
       THEN Raise(Error("DocoptExit", "Usage"))
       ELSE pc' = "read_config" /\ err' = err
    /\ UNCHANGED <<argv, world, config_path, config, log_level, editor, gapi,
                   body, evars>>

\* lines 314-325: read in the configuration file
ReadConfig ==
    /\ pc = "read_config"
    /\ IF world.config_arg
       THEN /\ config' = world.cfg
            /\ pc' = "log_level"
            /\ UNCHANGED <<config_path, err>>
       ELSE /\ config_path' = ConfigPath(world)
            /\ \/ /\ config_path' \in world.isfile
                  /\ ~world.unreadable
                  /\ config' = world.cfg
                  /\ pc' = "log_level"
                  /\ err' = err
               \/ /\ config_path' \notin world.isfile \/ world.unreadable
                  /\ config' = config
                  /\ Raise(Error("ValueError",
                                 "Unable to load configuration file"))
    /\ UNCHANGED <<argv, world, args, log_level, editor, gapi, body, evars>>

\* lines 327-331: the log level
SetLogLevel ==
    /\ pc = "log_level"
    /\ log_level' =
          IF /\ ConfigGetError(config, "log-level") = NoError
             /\ Upper(ConfigGet(config, "log-level")) \in LevelNames
          THEN Upper(ConfigGet(config, "log-level"))
          ELSE "ERROR"
    /\ pc' = "editor"
    /\ UNCHANGED <<argv, world, args, config_path, config, editor, gapi, err,
                   body, evars>>

\* lines 333-340: determine the editor to use
SetEditor ==
    /\ pc = "editor"
    /\ IF ~config.section
       THEN \* config.get raises NoSectionError, which is not caught
            /\ editor' = EnvironmentEditor(world, AlternativeEditor(world, None))
            /\ Raise(ConfigGetError(config, "editor"))
       ELSE /\ editor' = FindEditor(world, config)
            /\ IF editor' = None
               THEN Raise(Error("ValueError", "Unable to find an editor."))
               ELSE pc' = "token" /\ err' = err
    /\ UNCHANGED <<argv, world, args, config_path, config, log_level, gapi,
                   body, evars>>

\* lines 342-343: token = config.get('gist', 'token'); gapi = gist.GistAPI(...)
MakeApi ==
    /\ pc = "token"
    /\ IF ConfigGetError(config, "token") # NoError
       THEN Raise(ConfigGetError(config, "token")) /\ gapi' = gapi
       ELSE /\ gapi' = [token |-> ConfigGet(config, "token"), editor |-> editor]
            /\ pc' = "dispatch"
            /\ err' = err
    /\ UNCHANGED <<argv, world, args, config_path, config, log_level, editor,
                   body, evars>>

\* lines 452-455: version
Version ==
    /\ pc = "dispatch"
    /\ args["version"]
    /\ out' = Append(out, "v0.0.0")
    /\ pc' = "done"
    /\ UNCHANGED <<fixed, err, content, gist_file, todo, mode, files, tmpfile,
                   data, remote, opened, editor_runs, stdin_read>>

-----------------------------------------------------------------------------
(* Helpers of the command bodies *)

Min(a, b) == IF a < b THEN a ELSE b
Max(a, b) == IF a > b THEN a ELSE b

\* txt[:k]
SliceTo(t, k) ==
    IF k >= 0 THEN SubSeq(t, 1, Min(k, Len(t)))
    ELSE SubSeq(t, 1, Max(Len(t) + k, 0))

\* elide without the test width > 3
elideAnyWidth(t, w) ==
    IF w # <<>> /\ Len(t) > w[1]
    THEN SliceTo(t, w[1] - 3) \o "..."
    ELSE t

\* elide(txt, width); width is <<>> for None
elide(t, w) ==
    IF w # <<>> /\ w[1] > 3 /\ Len(t) > w[1]
    THEN SliceTo(t, w[1] - 3) \o "..."
    ELSE t

\* '{}'.format(x)
Format(x) == IF x = None THEN "None" ELSE x

FileInfo(name, text) == [name |-> name, content |-> text]

\* an ordered dictionary is a sequence of [key, value] with distinct keys
Has(d, k) == \E i \in 1..Len(d) : d[i].key = k

\* d.get(k)
Get(d, k) ==
    IF Has(d, k)
    THEN d[CHOOSE i \in 1..Len(d) : d[i].key = k].value
    ELSE None

\* d[k] = v
Put(d, k, v) ==
    IF Has(d, k)
    THEN [i \in 1..Len(d) |-> IF d[i].key = k THEN [key |-> k, value |-> v]
                                              ELSE d[i]]
    ELSE Append(d, [key |-> k, value |-> v])

\* gpg.encrypt(text, fingerprint).data: the armoured text, empty when gpg fails
Encrypt(text, ok) == IF ok THEN "PGP:" \o text ELSE ""

\* gpg.decrypt(text).data: the clear text, empty when gpg fails
Decrypt(text) ==
    IF Len(text) >= 4 /\ SubSeq(text, 1, 4) = "PGP:"
    THEN SubSeq(text, 5, Len(text))
    ELSE ""

\* config.getboolean('gist', 'delete-tempfiles') of the values of the model
GetBoolean(cfg, option) == ConfigGet(cfg, option) \in {"true", "yes", "on", "1"}

\* what reading a file, the editor's temporary file or stdin can give
Texts == {"", "hello"}

\* the gists the remote can hold: their files in remote order
Gists ==
    { <<>>,
      << [key |-> "a.txt", value |-> "hello"],
         [key |-> "b.txt", value |-> Encrypt("world", TRUE)] >> }

\* what gapi.list() can return
GistLists ==
    { <<>>,
      << [id |-> "abc123", public |-> TRUE, desc |-> "notes"],
         [id |-> "def456", public |-> FALSE, desc |-> None] >> }

\* the widths terminal_width() can give
Widths == {<<>>, <<3>>, <<12>>}

Call(op, a) == remote' = Append(remote, [op |-> op, args |-> a])

RemoteError == Error("Exception", "remote call failed")

-----------------------------------------------------------------------------
(* The commands *)

\* the line of one gist in list
Line(info) ==
    info.id \o " " \o (IF info.public THEN "+" ELSE "-") \o " "
            \o (IF info.desc = None THEN "" ELSE info.desc)

RECURSIVE Lines(_, _, _)
Lines(gists, w, bad) ==
    IF gists = <<>> THEN <<>>
    ELSE (IF Head(gists).id \in bad THEN <<>>
          ELSE <<elide(Line(Head(gists)), w)>>)
         \o Lines(Tail(gists), w, bad)

\* lines 345-356: list; bad are the gists whose line stdout cannot encode
List ==
    /\ pc = "dispatch"
    /\ args["list"]
    /\ Call("list", <<>>)
    /\ \/ /\ Raise(RemoteError)
          /\ out' = out
       \/ \E gists \in GistLists, w \in Widths :
          \E bad \in SUBSET {gists[i].id : i \in 1..Len(gists)} :
            /\ out' = out \o Lines(gists, w, bad)
            /\ pc' = "done"
            /\ err' = err
    /\ UNCHANGED <<fixed, content, gist_file, todo, mode, files, tmpfile, data,
                   opened, editor_runs, stdin_read>>

\* a command that is one call of the remote API and prints nothing
Simple(cmd, op, a) ==
    /\ pc = "dispatch"
    /\ args[cmd]
    /\ Call(op, a)
    /\ \/ Raise(RemoteError)
       \/ pc' = "done" /\ err' = err
    /\ UNCHANGED <<fixed, content, gist_file, todo, mode, files, tmpfile, data,
                   opened, editor_runs, stdin_read, out>>

\* lines 358-364: info
Info ==
    /\ pc = "dispatch"
    /\ args["info"]
    /\ Call("info", <<args["<id>"]>>)
    /\ \/ Raise(RemoteError) /\ out' = out
       \/ /\ out' = Append(out, "{\n  \"id\": \"" \o args["<id>"] \o "\"\n}")
          /\ pc' = "done"
          /\ err' = err
    /\ UNCHANGED <<fixed, content, gist_file, todo, mode, files, tmpfile, data,
                   opened, editor_runs, stdin_read>>

\* lines 366-371: edit
Edit == Simple("edit", "edit", <<args["<id>"]>>)

\* lines 373-380: description
Description ==
    Simple("description", "description", <<args["<id>"], args["<desc>"]>>)

\* lines 382-387: fork
Fork == Simple("fork", "fork", <<args["<id>"]>>)

\* lines 389-395: clone
Clone == Simple("clone", "clone", <<args["<id>"], args["<name>"]>>)

\* lines 437-442: archive
Archive == Simple("archive", "archive", <<args["<id>"]>>)

\* lines 429-435: files
Files ==
    /\ pc = "dispatch"
    /\ args["files"]
    /\ Call("files", <<args["<id>"]>>)
    /\ \/ Raise(RemoteError) /\ out' = out
       \/ \E gist \in Gists :
            /\ out' = out \o [i \in 1..Len(gist) |-> gist[i].key]
            /\ pc' = "done"
            /\ err' = err
    /\ UNCHANGED <<fixed, content, gist_file, todo, mode, files, tmpfile, data,
                   opened, editor_runs, stdin_read>>

\* lines 444-446: delete, up to the for loop
Delete ==
    /\ pc = "dispatch"
    /\ args["delete"]
    /\ todo' = args["<ids>"]
    /\ pc' = "delete"
    /\ UNCHANGED <<fixed, err, content, gist_file, mode, files, tmpfile, data,
                   remote, opened, editor_runs, stdin_read, out>>

\* lines 447-450: one turn of the for loop of delete, or its end
DeleteOne ==
    /\ pc = "delete"
    /\ IF todo = <<>>
       THEN pc' = "done" /\ UNCHANGED <<todo, remote, err>>
       ELSE /\ Call("delete", <<Head(todo)>>)
            /\ \/ Raise(RemoteError) /\ todo' = todo
               \/ todo' = Tail(todo) /\ pc' = pc /\ err' = err
    /\ UNCHANGED <<fixed, content, gist_file, mode, files, tmpfile, data,
                   opened, editor_runs, stdin_read, out>>

\* lines 397-403: content, the gist is fetched
ContentFetch ==
    /\ pc = "dispatch"
    /\ args["content"]
    /\ Call("content", <<args["<id>"]>>)
    /\ \/ Raise(RemoteError) /\ UNCHANGED <<content, gist_file>>
       \/ \E gist \in Gists :
            /\ content' = gist
            /\ gist_file' = Get(gist, args["<filename>"])
            /\ pc' = "content_show"
            /\ err' = err
    /\ UNCHANGED <<fixed, todo, mode, files, tmpfile, data, opened,
                   editor_runs, stdin_read, out>>

\* lines 405-427: content, the files are printed
ContentShow ==
    /\ pc = "content_show"
    /\ IF args["--decrypt"]
       THEN IF ~HasOption(config, "gnupg-homedir")
            THEN /\ Raise(Error("GistError",
                                "gnupg-homedir missing from config file"))
                 /\ out' = out
            ELSE /\ out' = out \o
                      (IF gist_file # None
                       THEN <<Decrypt(gist_file)>>
                       ELSE [i \in 1..Len(content) |->
                               content[i].key \o " (decrypted):\n"
                               \o Decrypt(content[i].value) \o "\n"])
                 /\ pc' = "done"
                 /\ err' = err
       ELSE /\ out' = out \o
                 (IF gist_file # None
                  THEN <<gist_file>>
                  ELSE [i \in 1..Len(content) |->
                          content[i].key \o ":\n" \o content[i].value \o "\n"])
            /\ pc' = "done"
            /\ err' = err
    /\ UNCHANGED <<fixed, content, gist_file, todo, mode, files, tmpfile, data,
                   remote, opened, editor_runs, stdin_read>>

-----------------------------------------------------------------------------
(* create *)

\* CreateCheck without the check for gnupg-fingerprint
CreateCheckHomedirOnly ==
    /\ pc = "dispatch"
    /\ args["create"]
    /\ IF args["--encrypt"] /\ ~HasOption(config, "gnupg-homedir")
       THEN Raise(Error("GistError", "gnupg-homedir missing from config file"))
       ELSE pc' = "acquire" /\ err' = err
    /\ UNCHANGED <<fixed, body>>

\* lines 457-467: create, the initial check for encryption
CreateCheck ==
    /\ pc = "dispatch"
    /\ args["create"]
    /\ IF args["--encrypt"] /\ ~HasOption(config, "gnupg-homedir")
       THEN Raise(Error("GistError", "gnupg-homedir missing from config file"))
       ELSE IF args["--encrypt"] /\ ~HasOption(config, "gnupg-fingerprint")
       THEN Raise(Error("GistError",
                        "gnupg-fingerprint missing from config file"))
       ELSE pc' = "acquire" /\ err' = err
    /\ UNCHANGED <<fixed, body>>

\* lines 480-499: the data comes from the editor
FromEditor(text) ==
    LET filename == DictGet(args, "<filename>", "file1.txt")
        delete == IF HasOption(config, "delete-tempfiles")
                  THEN GetBoolean(config, "delete-tempfiles")
                  ELSE TRUE
    IN  /\ mode' = "editor"
        /\ editor_runs' = Append(editor_runs, editor \o " " \o "/tmp/tmpfile")
        /\ tmpfile' = IF delete THEN "removed" ELSE "kept"
        /\ files' = Append(files, FileInfo(filename, text))
        /\ pc' = "check_empty"
        /\ UNCHANGED <<todo, stdin_read>>

\* lines 501-504: the data comes from stdin
FromStdin(text) ==
    LET filename == DictGet(args, "<filename>", "file1.txt")
    IN  /\ mode' = "stdin"
        /\ stdin_read' = TRUE
        /\ files' = Append(files, FileInfo(filename, text))
        /\ pc' = "check_empty"
        /\ UNCHANGED <<todo, editor_runs, tmpfile>>

\* lines 469-504: retrieve the data to add to the gist; the files named on
\* the command line are read one by one by ReadFile
Acquire ==
    /\ pc = "acquire"
    /\ \E isatty \in BOOLEAN, text \in Texts :
         IF isatty
         THEN IF args["FILES"] # <<>>
              THEN /\ mode' = "files"
                   /\ todo' = args["FILES"]
                   /\ pc' = "read_files"
                   /\ UNCHANGED <<files, editor_runs, tmpfile, stdin_read>>
              ELSE FromEditor(text)
         ELSE FromStdin(text)
    /\ UNCHANGED <<fixed, err, content, gist_file, data, remote, opened, out>>

\* lines 475-478: one turn of the for loop over the paths, or its end
ReadFile ==
    /\ pc = "read_files"
    /\ IF todo = <<>>
       THEN pc' = "check_empty" /\ UNCHANGED <<todo, files, opened, err>>
       ELSE /\ opened' = Append(opened, Head(todo))
            /\ \/ /\ Raise(Error("IOError", Head(todo)))
                  /\ UNCHANGED <<todo, files>>
               \/ \E text \in Texts :
                    /\ files' = Append(files,
                                       FileInfo(BaseName(Head(todo)), text))
                    /\ todo' = Tail(todo)
                    /\ pc' = pc
                    /\ err' = err
    /\ UNCHANGED <<fixed, content, gist_file, mode, tmpfile, data, remote,
                   editor_runs, stdin_read, out>>

\* FirstEmpty looking at the first file only
FirstEmptyOfHead(fs) ==
    IF fs # <<>> /\ Len(fs[1].content) = 0 THEN 1 ELSE 0

\* the first file of the list that is empty, 0 if none
FirstEmpty(fs) ==
    IF \E i \in 1..Len(fs) : Len(fs[i].content) = 0
    THEN CHOOSE i \in 1..Len(fs) :
            /\ Len(fs[i].content) = 0
            /\ \A j \in 1..(i - 1) : Len(fs[j].content) # 0
    ELSE 0

\* lines 506-509: ensure that there are no empty files
CheckEmpty ==
    /\ pc = "check_empty"
    /\ IF FirstEmpty(files) # 0
       THEN Raise(Error("GistError",
                "'" \o Format(files[FirstEmpty(files)].name) \o "' is empty"))
       ELSE pc' = "encrypt" /\ err' = err
    /\ UNCHANGED <<fixed, body>>

\* lines 522-527: data of the encrypted files; ok tells whether gpg works
RECURSIVE Encrypted(_, _, _)
Encrypted(fs, ok, d) ==
    IF fs = <<>> THEN d
    ELSE Encrypted(Tail(fs), ok,
                   Put(d, Format(Head(fs).name) \o ".asc",
                       [content |-> Encrypt(Head(fs).content, ok)]))

\* line 529: data of the files as they are
RECURSIVE Plain(_, _)
Plain(fs, d) ==
    IF fs = <<>> THEN d
    ELSE Plain(Tail(fs), Put(d, Head(fs).name, [content |-> Head(fs).content]))

\* lines 511-529: encrypt the files or leave them unmodified
MakeData ==
    /\ pc = "encrypt"
    /\ IF args["--encrypt"]
       THEN IF ConfigGetError(config, "gnupg-fingerprint") # NoError
            THEN Raise(ConfigGetError(config, "gnupg-fingerprint")) /\ data' = data
            ELSE IF ConfigGetError(config, "gnupg-homedir") # NoError
            THEN Raise(ConfigGetError(config, "gnupg-homedir")) /\ data' = data
            ELSE /\ \E ok \in BOOLEAN : data' = Encrypted(files, ok, <<>>)
                 /\ pc' = "submit"
                 /\ err' = err
       ELSE /\ data' = Plain(files, <<>>)
            /\ pc' = "submit"
            /\ err' = err
    /\ UNCHANGED <<fixed, content, gist_file, todo, mode, files, tmpfile,
                   remote, opened, editor_runs, stdin_read, out>>

\* line 531: print(gapi.create(description, data, public))
Submit ==
    /\ pc = "submit"
    /\ Call("create", <<args["<desc>"], data, args["--public"]>>)
    /\ \/ Raise(RemoteError) /\ out' = out
       \/ /\ out' = Append(out, "https://gist.github.com/new")
          /\ pc' = "done"
          /\ err' = err
    /\ UNCHANGED <<fixed, content, gist_file, todo, mode, files, tmpfile, data,
                   opened, editor_runs, stdin_read>>

-----------------------------------------------------------------------------
(* What a run can find *)

Opts(token, ed, level, homedir, fingerprint, delete) ==
    [o \in Options |->
        CASE o = "token" -> token
          [] o = "editor" -> ed
          [] o = "log-level" -> level
          [] o = "gnupg-homedir" -> homedir
          [] o = "gnupg-fingerprint" -> fingerprint
          [] o = "delete-tempfiles" -> delete]

AltPath == ExpandUser(".config/gist")
XdgPath == "/x/gist"
DotPath == ExpandUser(".gist")

\* a run with nothing done yet
Fresh ==
    /\ args = NoArgs
    /\ config_path = None
    /\ config = NoConfig
    /\ log_level = None
    /\ editor = None
    /\ gapi = NoApi
    /\ content = <<>>
    /\ gist_file = None
    /\ todo = <<>>
    /\ mode = None
    /\ files = <<>>
    /\ tmpfile = None
    /\ data = <<>>
    /\ remote = <<>>
    /\ opened = <<>>
    /\ editor_runs = <<>>
    /\ stdin_read = FALSE
    /\ out = <<>>
    /\ err = NoError

NoElide ==
    /\ txt = ""
    /\ width = <<>>
    /\ once = ""
    /\ twice = ""

\* the sections of the configuration files of SpecResolve
ResolveConfigs ==
    {[section |-> FALSE, opts |-> [o \in Options |-> None]]}
    \cup {[section |-> TRUE, opts |-> Opts(t, e, l, None, None, None)] :
            t \in {None, "tok"}, e \in {None, "", "nano"},
            l \in {None, "debug", "bogus"}}

\* the places of SpecResolve: every combination of the three configuration
\* files, of XDG_DATA_HOME, of EDITOR and of /usr/bin/editor
ResolveWorlds ==
    {[config_arg |-> FALSE, isfile |-> f, unreadable |-> FALSE,
      env |-> [EDITOR |-> e, XDG_DATA_HOME |-> x], alt_editor |-> a, cfg |-> c] :
        f \in SUBSET {AltPath, XdgPath, DotPath},
        e \in {None, "", " ", "vi", " vi "},
        x \in {None, " ", "/x", " /x "},
        a \in BOOLEAN,
        c \in ResolveConfigs}
    \cup
    {[config_arg |-> TRUE, isfile |-> {}, unreadable |-> FALSE,
      env |-> [EDITOR |-> e, XDG_DATA_HOME |-> None], alt_editor |-> a,
      cfg |-> c] :
        e \in {None, "", " ", "vi", " vi "},
        a \in BOOLEAN,
        c \in ResolveConfigs}

InitResolve ==
    /\ argv = [cmd |-> "version", flags |-> {}, pos |-> <<>>]
    /\ world \in ResolveWorlds
    /\ pc = "start"
    /\ Fresh
    /\ NoElide

NextResolve ==
    \/ ParseArgs
    \/ ReadConfig
    \/ SetLogLevel
    \/ SetEditor
    \/ MakeApi
    \/ Version

SpecResolve == InitResolve /\ [][NextResolve]_vars

-----------------------------------------------------------------------------
(* The runs of the client *)

\* the sequences over S of lengths lo to hi
Seqs(S, lo, hi) == UNION {[1..n -> S] : n \in lo..hi}

Ids == {"g1", "g2"}

\* the paths and file names given to create
Paths == {"d/a.txt", "b.txt"}

Argvs ==
    {[cmd |-> c, flags |-> {}, pos |-> <<>>] : c \in {"list", "version"}}
    \cup {[cmd |-> c, flags |-> {}, pos |-> <<"g1">>] :
            c \in {"edit", "info", "fork", "files", "archive", "clone"}}
    \cup {[cmd |-> "clone", flags |-> {}, pos |-> <<"g1", "mine">>],
          [cmd |-> "description", flags |-> {}, pos |-> <<"g1", "text">>]}
    \cup {[cmd |-> "delete", flags |-> {}, pos |-> ids] :
            ids \in Seqs(Ids, 1, MaxIds)}
    \cup {[cmd |-> "content", flags |-> f, pos |-> p] :
            f \in SUBSET {"--decrypt"},
            p \in {<<"g1">>, <<"g1", "a.txt">>, <<"g1", "c.txt">>}}
    \cup {[cmd |-> "create", flags |-> f, pos |-> <<"desc">> \o p] :
            f \in SUBSET {"--public", "--encrypt", "--filename"},
            p \in Seqs(Paths, 0, MaxArgs)}

MainConfigs ==
    {NoConfig} \cup
    {[section |-> TRUE, opts |-> Opts(t, None, None, h, f, d)] :
        t \in {None, "tok"}, h \in {None, "/gpg"}, f \in {None, "FP"},
        d \in {None, "false"}}

MainWorlds ==
    {[config_arg |-> a, isfile |-> f, unreadable |-> u,
      env |-> [EDITOR |-> e, XDG_DATA_HOME |-> None], alt_editor |-> FALSE,
      cfg |-> c] :
        a \in BOOLEAN, f \in {{}, {DotPath}}, u \in BOOLEAN,
        e \in {None, "vi"}, c \in MainConfigs}

Init ==
    /\ argv \in Argvs
    /\ world \in {w \in MainWorlds :
                    /\ w.config_arg => w.isfile = {} /\ ~w.unreadable
                    /\ w.unreadable => w.isfile # {}}
    /\ pc = "start"
    /\ Fresh
    /\ NoElide

Next ==
    \/ ParseArgs
    \/ ReadConfig
    \/ SetLogLevel
    \/ SetEditor
    \/ MakeApi
    \/ List
    \/ Info
    \/ Edit
    \/ Description
    \/ Fork
    \/ Clone
    \/ ContentFetch
    \/ ContentShow
    \/ Files
    \/ Archive
    \/ Delete
    \/ DeleteOne
    \/ Version
    \/ CreateCheck
    \/ Acquire
    \/ ReadFile
    \/ CheckEmpty
    \/ MakeData
    \/ Submit

Spec == Init /\ [][Next]_vars

-----------------------------------------------------------------------------
(* elide, applied twice to a text *)

RECURSIVE Str(_)
Str(chars) == IF chars = <<>> THEN "" ELSE Head(chars) \o Str(Tail(chars))

ElideTexts == {Str(c) : c \in Seqs({"a", "."}, 0, MaxLen)}

ElideWidths == {<<>>} \cup {<<w>> : w \in 0..MaxWidth}

InitElide ==
    /\ argv = [cmd |-> "list", flags |-> {}, pos |-> <<>>]
    /\ world = CHOOSE w \in MainWorlds : w.config_arg /\ w.cfg = NoConfig
                                         /\ w.env.EDITOR = None
                                         /\ w.isfile = {} /\ ~w.unreadable
    /\ pc = "elide"
    /\ Fresh
    /\ txt \in ElideTexts
    /\ width \in ElideWidths
    /\ once = ""
    /\ twice = ""

ElideOnce ==
    /\ pc = "elide"
    /\ once' = elide(txt, width)
    /\ pc' = "elided"
    /\ UNCHANGED <<argv, world, args, config_path, config, log_level, editor,
                   gapi, err, body, txt, width, twice>>

ElideTwice ==
    /\ pc = "elided"
    /\ twice' = elide(once, width)
    /\ pc' = "elided_twice"
    /\ UNCHANGED <<argv, world, args, config_path, config, log_level, editor,
                   gapi, err, body, txt, width, once>>

NextElide ==
    \/ ElideOnce
    \/ ElideTwice

SpecElide == InitElide /\ [][NextElide]_vars

-----------------------------------------------------------------------------
(* The claims *)

\* docopt accepted the command line
Parsed == args # NoArgs

CreateRun == argv.cmd = "create" /\ Parsed

CreateCalls == {k \in 1..Len(remote) : remote[k].op = "create"}

\* the errors that tell of the configuration
IsConfigError(e) ==
    \/ e.type \in {"ValueError", "NoSectionError", "NoOptionError"}
    \/ /\ e.type = "GistError"
       /\ e.msg \in {"gnupg-homedir missing from config file",
                     "gnupg-fingerprint missing from config file"}

\* every source of data of create has been read
AcquisitionDone ==
    /\ files # <<>>
    /\ mode = "files" => Len(files) = Len(args["FILES"])

\* C1: in a run of create, in each of the three modes and with or without
\* --encrypt, once a gathered file is empty create is never called on the
\* remote, and when all the data has been gathered the run ends, at the check
\* of the files, in the error that names the first empty file.
C1_EmptyFileNeverSubmitted ==
    (CreateRun /\ \E i \in 1..Len(files) : files[i].content = "") =>
        /\ CreateCalls = {}
        /\ AcquisitionDone =>
             \/ pc = "read_files" /\ todo = <<>>
             \/ pc = "check_empty"
             \/ /\ pc = "done"
                /\ err = Error("GistError",
                       "'" \o Format(files[FirstEmpty(files)].name) \o "' is empty")

\* C1 witness: two files given with --encrypt, the second one empty, and the
\* run has ended naming it
C1_Witness ==
    /\ CreateRun
    /\ args["--encrypt"]
    /\ pc = "done"
    /\ Len(files) = 2
    /\ files[1].content # ""
    /\ files[2].content = ""
    /\ err = Error("GistError", "'" \o files[2].name \o "' is empty")

\* C2: in a run of create with --encrypt whose configuration lacks
\* gnupg-homedir or gnupg-fingerprint, no file is ever opened, the editor is
\* never started, stdin is never read, no remote call is made, and the run
\* ends in a configuration error.
C2_EncryptFailsFast ==
    (/\ CreateRun
     /\ args["--encrypt"]
     /\ \/ ~HasOption(world.cfg, "gnupg-homedir")
        \/ ~HasOption(world.cfg, "gnupg-fingerprint")) =>
        /\ opened = <<>>
        /\ editor_runs = <<>>
        /\ ~stdin_read
        /\ remote = <<>>
        /\ files = <<>>
        /\ pc \in {"read_config", "log_level", "editor", "token", "dispatch",
                   "done"}
        /\ pc = "done" => IsConfigError(err)

\* C2 witness: files were given, gnupg-homedir is there, gnupg-fingerprint is
\* not, and the run has ended at the initial check
C2_Witness ==
    /\ CreateRun
    /\ args["--encrypt"]
    /\ args["FILES"] # <<>>
    /\ HasOption(config, "gnupg-homedir")
    /\ pc = "done"
    /\ err = Error("GistError", "gnupg-fingerprint missing from config file")

\* the base names of the paths
BaseNames(paths) == [i \in 1..Len(paths) |-> BaseName(paths[i])]

Distinct(seq) == \A i, j \in 1..Len(seq) : seq[i] = seq[j] => i = j

\* C3: when create is given paths of files with distinct base names, stdin is
\* never read whether or not it is a terminal, and a run that ends well has
\* made one create call whose payload holds one entry per path, named by the
\* base names in the order of the arguments.
C3_FilesGivenFilesRead ==
    (/\ CreateRun
     /\ ~args["--encrypt"]
     /\ args["FILES"] # <<>>
     /\ Distinct(BaseNames(args["FILES"]))) =>
        /\ ~stdin_read
        /\ (pc = "done" /\ err = NoError) =>
             /\ Cardinality(CreateCalls) = 1
             /\ [i \in 1..Len(data) |-> data[i].key] = BaseNames(args["FILES"])

\* the file content prints for a file name, <<>> when the gist has no such file
Shown(name) ==
    IF ~Has(content, name) THEN <<>>
    ELSE IF args["--decrypt"] THEN <<Decrypt(Get(content, name))>>
    ELSE <<Get(content, name)>>

\* C4: when content is given a file name and ends well, what it has printed is
\* the content of the file of that name, and nothing when the gist has no
\* file of that name.
C4_OnlyNamedFileShown ==
    (/\ argv.cmd = "content"
     /\ Parsed
     /\ args["<filename>"] # None
     /\ pc = "done"
     /\ err = NoError) =>
        out = Shown(args["<filename>"])

\* the configuration file has been looked for
PathChosen == ~world.config_arg /\ pc \notin {"start", "read_config"}

\* C5 as first stated: ~/.config/gist if it is a file, else $XDG_DATA_HOME/gist
\* if XDG_DATA_HOME is set and that is a file, else ~/.gist.
C5_ConfigDirFirst ==
    PathChosen =>
        config_path =
            IF AltPath \in world.isfile THEN AltPath
            ELSE IF /\ world.env.XDG_DATA_HOME # None
                    /\ PathJoin(world.env.XDG_DATA_HOME, "gist") \in world.isfile
                 THEN PathJoin(world.env.XDG_DATA_HOME, "gist")
                 ELSE DotPath

\* XDG_DATA_HOME without the blanks around it, "" when it is not set
XdgHome == Strip(EnvGet(world.env, "XDG_DATA_HOME"))

\* C5 as amended: the configuration file is $XDG_DATA_HOME/gist if XDG_DATA_HOME
\* is not blank and that is a file, else ~/.config/gist if that is a file, else
\* ~/.gist; when both $XDG_DATA_HOME/gist and ~/.config/gist are there, the
\* first is the one opened.
C5_XdgFirst ==
    PathChosen =>
        LET xdg == XdgHome # "" /\ PathJoin(XdgHome, "gist") \in world.isfile
        IN  /\ xdg => config_path = PathJoin(XdgHome, "gist")
            /\ (~xdg /\ AltPath \in world.isfile) => config_path = AltPath
            /\ (~xdg /\ AltPath \notin world.isfile) => config_path = DotPath
            /\ pc # "done" => config_path \in world.isfile

\* C5 witness: both files are there and the one below XDG_DATA_HOME was read
C5_Witness ==
    /\ PathChosen
    /\ {AltPath, XdgPath} \subseteq world.isfile
    /\ config_path = XdgPath
    /\ config = world.cfg
    /\ pc = "log_level"

\* the editor has been looked for, in a configuration with the section gist
EditorChosen == config.section /\ pc \in {"token", "dispatch", "done"}

NoEditorError == Error("ValueError", "Unable to find an editor.")

\* the editor of the claim, given what the environment gives
ClaimedEditor(environment) ==
    IF config.opts["editor"] # None THEN config.opts["editor"]
    ELSE IF environment # "" THEN environment
    ELSE IF world.alt_editor THEN "/usr/bin/editor"
    ELSE None

EditorIs(e) ==
    IF e = None
    THEN pc = "done" /\ err = NoEditorError /\ gapi = NoApi /\ out = <<>>
    ELSE editor = e /\ err # NoEditorError

\* C6 as first stated: the editor is the one of the configuration if there is
\* one, else the value of EDITOR if not empty, else /usr/bin/editor if there is
\* one; else the run fails.
C6_EditorPrecedence ==
    EditorChosen => EditorIs(ClaimedEditor(EnvGet(world.env, "EDITOR")))

\* C6 as amended: the same with the value of EDITOR taken without the blanks
\* around it, and passed over when nothing is left of it.
C6_EditorPrecedenceStripped ==
    EditorChosen => EditorIs(ClaimedEditor(Strip(EnvGet(world.env, "EDITOR"))))

\* C6 witness: no editor in the configuration, EDITOR set with blanks around
\* it, /usr/bin/editor there, and the editor is the one of EDITOR
C6_Witness ==
    /\ EditorChosen
    /\ config.opts["editor"] = None
    /\ world.env.EDITOR = " vi "
    /\ world.alt_editor
    /\ editor = "vi"
    /\ pc = "dispatch"

\* the name of the claim for the one file of the editor and stdin modes
ClaimedName ==
    IF args["<filename>"] # None THEN args["<filename>"] ELSE "file1.txt"

\* C7: in a run of create that took its data from the editor or from stdin,
\* the one file gathered, and the one entry of the payload, is named by the
\* file name argument if there is one and file1.txt if not.
C7_DefaultFileName ==
    (CreateRun /\ mode \in {"editor", "stdin"}) =>
        /\ files # <<>> => files[1].name = ClaimedName
        /\ (data # <<>> /\ ~args["--encrypt"]) => data[1].key = ClaimedName

\* the command line holds --filename, a name for it and at least one path
BothGiven ==
    /\ argv.cmd = "create"
    /\ "--filename" \in argv.flags
    /\ Len(argv.pos) > 2

\* C8: a create command line with both --filename <filename> and a list of
\* files never gets to a create call, reads no data, and ends in the usage
\* error of the command line.
C8_FilenameWithFilesRejected ==
    BothGiven =>
        /\ CreateCalls = {}
        /\ files = <<>>
        /\ pc \in {"start", "done"}
        /\ pc = "done" => err = Error("DocoptExit", "Usage")

\* C8 witness: such a command line has been turned down
C8_Witness ==
    /\ BothGiven
    /\ pc = "done"
    /\ err.type = "DocoptExit"
    /\ args = NoArgs

\* C9: a run that ends in a configuration error has made no remote call.
C9_ConfigErrorBeforeRemote ==
    (pc = "done" /\ IsConfigError(err)) => remote = <<>>

\* C10: elide(elide(text, width), width) = elide(text, width), for a width that
\* is None, at most 3, or more than 3.
C10_ElideIdempotent ==
    pc = "elided_twice" => twice = once

\* C10 witness: a text longer than a width above 3 has been cut, and elide has
\* been applied to the result
C10_Witness ==
    /\ pc = "elided_twice"
    /\ width # <<>>
    /\ width[1] > 3
    /\ Len(txt) > width[1]
    /\ once = SubSeq(txt, 1, width[1] - 3) \o "..."
    /\ once # txt

====
